---- MODULE Spec2Model ----
(***************************************************************************)
(* Multi-task time-series backbones (ecodyna/mutitask_models.py) and the   *)
(* residual-stack network they wrap (validyna/models/nbeats.py).           *)
(*                                                                         *)
(* SpecCtor  : a constructor call, argument by argument, up to the         *)
(*             backbone network.                                           *)
(* SpecCalls : a caller's program: the constructor call, the rest of the   *)
(*             constructor when super().__init__ and the network return,   *)
(*             then the calls made on the instance it returns.             *)
(* SpecNet   : the NBEATS network alone, by value.                         *)
(*                                                                         *)
(* Tensors are modelled by their shape and, for forecast_in_chunks, by the *)
(* content of one row along the time axis.                                 *)
(***************************************************************************)
EXTENDS Integers, Sequences, FiniteSets, TLC

\* ---------------------------------------------------------------- bounds
MaxNIn == 2
MaxSpaceDim == 2
MaxSize == 3
\* the hidden size every MultiTaskRNN is built with
NumHidden == 1
\* the residual-stack network that is modelled: stacks, blocks per stack and
\* expansion coefficient dimension
NStacks == 2
NBlocks == 2
ExpansionDim == 1
CustomWidth == 2
MaxBatch == 1
MaxHorizon == 3

\* ----------------------------------------------------- values and errors
\* Python None; an argument that is not an int and equals no int; a float
\* whose value is the backbone's feature width (equal to it under ==, not an
\* int under isinstance)
None == -1
NonInt == -2
FloatWidth == -3

Backbones == {"RNN", "NBEATS", "Transformer"}
Tasks == {"classify", "featurize", "forecast"}
ForecastTypes == {"one_by_one", "multi"}

OK == "none"
ConfigError == "ConfigError"          \* ValueError of check_int_arg / line 49
OrderingError == "OrderingError"      \* ValueError of line 377
NotPrepared == "NotPrepared"          \* ValueError "... was not prepared to ..."
ShapeError == "ShapeError"            \* AssertionError of the shape asserts
WidthAssert == "FeatureWidthAssert"   \* AssertionError of prepare_to_featurize
NoNOutError == "NoNOutError"          \* ValueError of NBEATS.forward, line 137
TypeError == "TypeError"
AttributeError == "AttributeError"
RuntimeError == "RuntimeError"

\* ------------------------------------------------------------ check_int_arg
IsInt(arg) == arg \notin {None, NonInt, FloatWidth}

check_int_arg(arg, n_min) ==
    IF ~IsInt(arg) \/ arg < n_min
    THEN [err |-> ConfigError, val |-> None]
    ELSE [err |-> OK, val |-> arg]

\* minimum of each task size (the n_min arguments of lines 75, 81, 87)
MinClasses == 2
MinFeatures == 1
MinOut == 1

\* ------------------------------------------------------------------- heads
\* A head (classifier / forecaster) is None or a module with an output width.
NoHead == [kind |-> "none", width |-> 0]
DefaultHead(w) == [kind |-> "default", width |-> w]
CustomHead(w) == [kind |-> "custom", width |-> w]
\* an empty nn.Sequential(): a module that returns its input and whose len is 0
EmptySequential(w) == [kind |-> "empty", width |-> w]

\* bool(module): None is falsy, nn.Sequential defines __len__ and is falsy when
\* empty, any other module is truthy
Truthy(head) == head.kind \notin {"none", "empty"}

\* make_simple_mlp: nn.Linear(n_features, ...) needs integer sizes
make_simple_mlp(n_features, n_outputs) ==
    IF ~IsInt(n_features) \/ ~IsInt(n_outputs)
    THEN [err |-> TypeError, head |-> NoHead]
    ELSE [err |-> OK, head |-> DefaultHead(n_outputs)]

\* MultiTaskTransformer has no default_classifier / default_forecaster attribute
default_head_Transformer(n_features, n_outputs) ==
    [err |-> AttributeError, head |-> NoHead]


\* ------------------------------------------------------------------- state
VARIABLES
    backbone,                  \* which concrete class the instance is
    n_in, space_dim,           \* lines 52-53
    forecast_type, n_hidden,   \* MultiTaskRNN, lines 231-232
    n_stacks, n_blocks, expansion_coefficient_dim,   \* MultiTaskNBEATS, lines 356-358
    n_classes, n_features, n_out,                    \* the readiness markers, lines 56-58
    classifier, forecaster,    \* the task heads (None until built)
    nbeats,                    \* the NBEATS composition tree: n_out of network, stacks, blocks
    requires_grad,             \* trainable flag of every existing parameter group
    last,                      \* the last call made on the instance and how it ended
    result,                    \* the tensor the last call returned
    round_trip,                \* history: the flags before a freeze that an unfreeze follows
    prepared_how,              \* history: how the last prepare_to_* call of each task ended
    hyperparams,               \* the hyperparameter registry, lines 60-64
    log,                       \* what the last call printed and the inner calls it made
    net_input,                 \* NBEATS network alone: one row of the flattened input x
    net_weights,               \* its weights, one integer per block
    net_n_out,                 \* its n_out
    net_pass,                  \* the pass last run on it and the tensor it returned
    construction               \* a constructor call: its class, arguments and outcome

config == <<backbone, n_in, space_dim, forecast_type, n_hidden,
            n_stacks, n_blocks, expansion_coefficient_dim>>
markers == <<n_classes, n_features, n_out>>
network == <<net_input, net_weights, net_n_out, net_pass>>
fixed == <<config, construction, network>>
vars == <<fixed, markers, classifier, forecaster, nbeats, requires_grad, last, result,
          round_trip, prepared_how, hyperparams, log>>

\* --------------------------------------------------------- composition tree
Stacks == 1..n_stacks
Blocks == (1..n_stacks) \X (1..n_blocks)
LastBlock == <<n_stacks, n_blocks>>

\* NBEATS._Block.__init__ / _Stack.__init__ / NBEATS.__init__ :
\* the same n_out is handed down to every stack and every block;
\* g_forecast is built only when n_out is not None
\* (set_by is history: which of __init__ and set_n_out bound n_out last)
NBEATS_init(S, Bk, n) ==
    [set_by |-> "__init__",
     n_out |-> n,
     stack_n_out |-> [s \in 1..S |-> n],
     block_n_out |-> [sb \in (1..S) \X (1..Bk) |-> n],
     g_forecast |-> [sb \in (1..S) \X (1..Bk) |-> n]]

\* NBEATS.set_n_out -> _Stack.set_n_out -> _Block.set_n_out
NBEATS_set_n_out(net, n) ==
    [set_by |-> "set_n_out",
     n_out |-> n,
     stack_n_out |-> [s \in DOMAIN net.stack_n_out |-> n],
     block_n_out |-> [sb \in DOMAIN net.block_n_out |-> n],
     g_forecast |-> [sb \in DOMAIN net.g_forecast |-> n]]

NoNet == NBEATS_init(0, 0, None)

\* --------------------------------------------------------------- parameters
\* A parameter group is <<stack, block, module name>>; modules that belong to
\* no block have stack = block = 0.
BlockModules == {"FC_stack", "FC_backcast", "FC_forecast", "g_backcast"}

BlockParams(S, Bk) == (1..S) \X (1..Bk) \X BlockModules
GForecastParams(net) ==
    {<<sb[1], sb[2], "g_forecast">> : sb \in {b \in DOMAIN net.g_forecast : net.g_forecast[b] /= None}}
HeadParam(name) == <<0, 0, name>>

\* NBEATS.__init__, lines 127-128: the last block of the last stack
PermanentlyFrozen(S, Bk) == {<<S, Bk, "FC_backcast">>, <<S, Bk, "g_backcast">>}

BackboneParams(bb, S, Bk, net) ==
    CASE bb = "RNN" -> {HeadParam("rnn")}
      [] bb = "Transformer" -> {HeadParam("encoder"), HeadParam("decoder")}
      [] bb = "NBEATS" -> BlockParams(S, Bk) \cup GForecastParams(net)

\* a freshly built module's parameters are trainable
Fresh(ps) == [p \in ps |-> TRUE]

\* f overridden by g where g is defined
Override(f, g) == [p \in (DOMAIN f) \cup (DOMAIN g) |-> IF p \in DOMAIN g THEN g[p] ELSE f[p]]

SetFlags(f, ps, v) == [p \in DOMAIN f |-> IF p \in ps THEN v ELSE f[p]]

\* --------------------------------------------------------------- bookkeeping
NoTensor == [shape |-> <<>>, data |-> <<>>]

Call(op, kind, arg, err, ran) ==
    [op |-> op, kind |-> kind, arg |-> arg, err |-> err, ran |-> ran]

\* no call is in progress: the caller has the outcome of the previous one
NoCall == Call("idle", "none", None, OK, "none")

\* nothing printed, no inner call made, no dictionary returned
NoLog == [warned |-> FALSE, calls |-> <<>>, functions |-> {}]

\* round_trip follows freeze_featurizer directly followed by unfreeze_featurizer
Idle == [stage |-> "idle", before |-> <<>>]

\* prepared_how[task]: "never" until a prepare_to_<task> call assigns the marker,
\* then whether the last call that assigned it returned ("clean") or raised
\* afterwards ("raised")
NeverPrepared == [t \in Tasks |-> "never"]
How(how, task, o) ==
    IF o.err = OK THEN [how EXCEPT ![task] = "clean"]
    ELSE IF o.assigned THEN [how EXCEPT ![task] = "raised"]
    ELSE how

\* a constructor call, and the record of an instance whose construction is over
Ctor(cls, args, pc, err) == [cls |-> cls, args |-> args, pc |-> pc, err |-> err]
Constructed(cls) == Ctor(cls, <<>>, "constructed", OK)

\* the network-level passes are followed in a specification of their own
NoPass == [op |-> "none", out |-> <<>>]
NoNetworkPass ==
    /\ net_input = <<>>
    /\ net_weights = <<>>
    /\ net_n_out = None
    /\ net_pass = NoPass

\* ------------------------------------------------------ hyperparameter registry
\* MultiTaskTimeSeriesModel.register_hyperparams: dict.update
register_hyperparams(reg, kwargs) == Override(reg, kwargs)

\* ------------------------------------------------------------ task readiness
is_prepared_to_classify == n_classes /= None
is_prepared_to_featurize == n_features /= None
is_prepared_to_forecast == n_out /= None

\* The width of the feature vector the backbone computes:
\*   RNN          the last hidden output; hidden_size is the n_features the
\*                constructor received, which line 260 forces to be n_hidden
\*   NBEATS       every block's forecast expansion (nbeats.py 151)
\*   Transformer  the encoder output averaged over time (476)
FeatureWidth ==
    CASE backbone = "RNN" -> n_hidden
      [] backbone = "NBEATS" -> n_stacks * n_blocks * expansion_coefficient_dim
      [] backbone = "Transformer" -> space_dim

\* --------------------------------------------- MultiTaskTimeSeriesModel.prepare_to_*
\* The base methods: the marker is assigned the value check_int_arg returns,
\* so a failing check leaves it as it was.
Base_prepare(arg, n_min, marker) ==
    LET r == check_int_arg(arg, n_min)
    IN  [err |-> r.err, marker |-> IF r.err = OK THEN r.val ELSE marker]

\* `head or default`: the supplied head when it is truthy, else the default
HeadOr(custom, built) ==
    IF Truthy(custom) THEN [err |-> OK, head |-> custom] ELSE built

\* An outcome of a prepare call: the error raised, the marker and the head after
\* it; `assigned` tells that the base method returned (it assigned the marker).
Outcome(err, marker, head) ==
    [err |-> err, marker |-> marker, head |-> head,
     assigned |-> err \notin {ConfigError, OrderingError, WidthAssert}]

\* ----------------------------------------------------------- prepare_to_classify
RNN_prepare_to_classify(n, custom) ==
    LET b == Base_prepare(n, MinClasses, n_classes)
        h == HeadOr(custom, make_simple_mlp(n_features, n))
    IN  IF b.err /= OK THEN Outcome(b.err, n_classes, classifier)
        ELSE IF h.err /= OK THEN Outcome(h.err, b.marker, classifier)
        ELSE Outcome(OK, b.marker, h.head)

NBEATS_prepare_to_classify(n, custom) ==
    IF ~is_prepared_to_featurize THEN Outcome(OrderingError, n_classes, classifier)
    ELSE LET b == Base_prepare(n, MinClasses, n_classes)
             h == HeadOr(custom, make_simple_mlp(n_features, b.marker))
         IN  IF b.err /= OK THEN Outcome(b.err, n_classes, classifier)
             ELSE IF h.err /= OK THEN Outcome(h.err, b.marker, classifier)
             ELSE Outcome(OK, b.marker, h.head)

Transformer_prepare_to_classify(n, custom) ==
    LET b == Base_prepare(n, MinClasses, n_classes)
        h == HeadOr(custom, default_head_Transformer(n_features, b.marker))
    IN  IF b.err /= OK THEN Outcome(b.err, n_classes, classifier)
        ELSE IF h.err /= OK THEN Outcome(h.err, b.marker, classifier)
        ELSE Outcome(OK, b.marker, h.head)

prepare_to_classify(n, custom) ==
    CASE backbone = "RNN" -> RNN_prepare_to_classify(n, custom)
      [] backbone = "NBEATS" -> NBEATS_prepare_to_classify(n, custom)
      [] backbone = "Transformer" -> Transformer_prepare_to_classify(n, custom)

\* ---------------------------------------------------------- prepare_to_featurize
\* Every backbone asserts its own feature width first, then calls the base method.
prepare_to_featurize(n) ==
    IF n \notin {FeatureWidth, FloatWidth} THEN Outcome(WidthAssert, n_features, NoHead)
    ELSE LET b == Base_prepare(n, MinFeatures, n_features)
         IN  Outcome(b.err, b.marker, NoHead)

\* ----------------------------------------------------------- prepare_to_forecast
RNN_prepare_to_forecast(n, custom) ==
    LET b == Base_prepare(n, MinOut, n_out)
        true_n_out == space_dim * (IF forecast_type = "one_by_one" THEN 1 ELSE b.marker)
        h == HeadOr(custom, make_simple_mlp(n_features, true_n_out))
    IN  IF b.err /= OK THEN Outcome(b.err, n_out, forecaster)
        ELSE IF h.err /= OK THEN Outcome(h.err, b.marker, forecaster)
        ELSE Outcome(OK, b.marker, h.head)

\* only the base method: the network's own n_out is not touched
NBEATS_prepare_to_forecast(n, custom) ==
    LET b == Base_prepare(n, MinOut, n_out)
    IN  Outcome(b.err, b.marker, forecaster)

Transformer_prepare_to_forecast(n, custom) ==
    LET b == Base_prepare(n, MinOut, n_out)
        h == HeadOr(custom, default_head_Transformer(n_features, b.marker * space_dim))
    IN  IF b.err /= OK THEN Outcome(b.err, n_out, forecaster)
        ELSE IF h.err /= OK THEN Outcome(h.err, b.marker, forecaster)
        ELSE Outcome(OK, b.marker, h.head)

prepare_to_forecast(n, custom) ==
    CASE backbone = "RNN" -> RNN_prepare_to_forecast(n, custom)
      [] backbone = "NBEATS" -> NBEATS_prepare_to_forecast(n, custom)
      [] backbone = "Transformer" -> Transformer_prepare_to_forecast(n, custom)

\* a replaced head is a new module: its parameters are trainable
WithHead(flags, name, before, after) ==
    IF after = before THEN flags
    ELSE Override(flags, Fresh({HeadParam(name)}))

\* lines 73-74, 79-80, 85-86: the base method prints a warning when the task's
\* marker is already set; the calls that end in a backbone's own preceding
\* check never reach the base method
Printed(o, marker) ==
    [NoLog EXCEPT !.warned = marker /= None /\ o.err \notin {OrderingError, WidthAssert}]

\* ------------------------------------------------------------- constructor
\* the keyword arguments a subclass constructor registers besides the three
\* sizes: model, n_layers and forecast_type (lines 226-227), the **kwargs the
\* network needs (354: n_layers, layer_widths; 433: nhead)
OtherHyperparams(bb, ft) ==
    CASE bb = "RNN" -> [model |-> "GRU", n_layers |-> 1, forecast_type |-> ft]
      [] bb = "NBEATS" -> [n_layers |-> 1, layer_widths |-> 1]
      [] bb = "Transformer" -> [nhead |-> 1]

\* the registry after a constructor: n_in and space_dim from the base class
\* (line 61), then the three task sizes as the constructor received them and
\* its other keyword arguments (lines 226, 354, 433)
Registered(bb, ft, ni, d, nc, nf, no) ==
    register_hyperparams(
        register_hyperparams(<<>>, [n_in |-> ni, space_dim |-> d]),
        Override([n_classes |-> nc, n_features |-> nf, n_out |-> no],
                 OtherHyperparams(bb, ft)))

\* no registry: self.hyperparams is not assigned (a constructor that raised at
\* line 49, the NBEATS network taken alone)
NoRegistry == <<>>

\* the default head of a class (lines 252, 257, 380, 452, 462)
DefaultHeadOf(bb, nf, width) ==
    IF bb = "Transformer" THEN default_head_Transformer(nf, width)
    ELSE make_simple_mlp(nf, width)

\* The conditional prepare_to_* calls of a subclass constructor, made with no
\* head argument on markers and heads that are None: the outcome of each call
\* and the error of the first one that raises.
\*   MultiTaskRNN 238-248 and MultiTaskTransformer 439-447: featurize, classify,
\*   forecast; MultiTaskNBEATS 364-372: forecast (always: the network needs an
\*   integer n_out), featurize, classify (after the ordering check of line 376)
SubclassInit(bb, d, ft, width, nc, nf, no) ==
    LET feat == IF nf = None THEN Outcome(OK, None, NoHead)
                ELSE IF nf \notin {width, FloatWidth}
                THEN Outcome(WidthAssert, None, NoHead)
                ELSE LET b == Base_prepare(nf, MinFeatures, None)
                     IN  Outcome(b.err, b.marker, NoHead)
        cls == IF nc = None THEN Outcome(OK, None, NoHead)
               ELSE IF bb = "NBEATS" /\ feat.marker = None
               THEN Outcome(OrderingError, None, NoHead)
               ELSE LET b == Base_prepare(nc, MinClasses, None)
                        hd == HeadOr(NoHead, DefaultHeadOf(bb, feat.marker, b.marker))
                    IN  IF b.err /= OK THEN Outcome(b.err, None, NoHead)
                        ELSE IF hd.err /= OK THEN Outcome(hd.err, b.marker, NoHead)
                        ELSE Outcome(OK, b.marker, hd.head)
        fct == IF no = None
               THEN Outcome(IF bb = "NBEATS" THEN TypeError ELSE OK, None, NoHead)
               ELSE LET b == Base_prepare(no, MinOut, None)
                        true_n_out == IF bb = "RNN" /\ ft = "one_by_one" THEN d
                                      ELSE d * b.marker
                        hd == HeadOr(NoHead, DefaultHeadOf(bb, feat.marker, true_n_out))
                    IN  IF b.err /= OK THEN Outcome(b.err, None, NoHead)
                        ELSE IF bb = "NBEATS" THEN Outcome(OK, b.marker, NoHead)
                        ELSE IF hd.err /= OK THEN Outcome(hd.err, b.marker, NoHead)
                        ELSE Outcome(OK, b.marker, hd.head)
        order == IF bb = "NBEATS" THEN <<fct, feat, cls>> ELSE <<feat, cls, fct>>
        raised == {i \in 1..3 : order[i].err /= OK}
    IN  [err |-> IF raised = {} THEN OK
                 ELSE order[CHOOSE i \in raised : \A j \in raised : i <= j].err,
         n_classes |-> cls.marker, n_features |-> feat.marker, n_out |-> fct.marker,
         classifier |-> cls.head, forecaster |-> fct.head]

\* the feature width a class asserts, from the constructor's arguments
WidthOf(bb, d, h, S, Bk, e) ==
    CASE bb = "RNN" -> h
      [] bb = "NBEATS" -> S * Bk * e
      [] bb = "Transformer" -> d

\* ------------------------------------------------------------------- inputs
\* the sizes handed to prepare_to_*: not an integer, an integral float, zero,
\* the least size each task accepts, the largest size, the backbone's width
SizeArgs == {NonInt, FloatWidth, 0, MinOut, MinClasses, MaxSize, FeatureWidth}
CustomHeads == {NoHead, CustomHead(CustomWidth), EmptySequential(FeatureWidth)}

\* ------------------------------------------------------------ prepare actions
PrepareToClassify ==
    /\ last.op = "idle"
    /\ \E n \in SizeArgs, custom \in CustomHeads :
         LET o == prepare_to_classify(n, custom)
         IN  /\ n_classes' = o.marker
             /\ classifier' = o.head
             /\ requires_grad' = WithHead(requires_grad, "classifier", classifier, o.head)
             /\ last' = Call("prepare_to_classify", "classify", n, o.err, "none")
             /\ prepared_how' = How(prepared_how, "classify", o)
             /\ result' = NoTensor
             /\ log' = Printed(o, n_classes)
             /\ UNCHANGED hyperparams
             /\ round_trip' = Idle
             /\ UNCHANGED <<fixed, n_features, n_out, forecaster, nbeats>>

PrepareToFeaturize ==
    /\ last.op = "idle"
    /\ \E n \in SizeArgs :
         LET o == prepare_to_featurize(n)
         IN  /\ n_features' = o.marker
             /\ last' = Call("prepare_to_featurize", "featurize", n, o.err, "none")
             /\ prepared_how' = How(prepared_how, "featurize", o)
             /\ result' = NoTensor
             /\ log' = Printed(o, n_features)
             /\ UNCHANGED hyperparams
             /\ round_trip' = Idle
             /\ UNCHANGED <<fixed, n_classes, n_out, classifier, forecaster, nbeats, requires_grad>>

\* MultiTaskNBEATS.prepare_to_forecast takes no forecaster argument
PrepareToForecast ==
    /\ last.op = "idle"
    /\ \E n \in SizeArgs, custom \in CustomHeads :
         /\ backbone = "NBEATS" => custom = NoHead
         /\ LET o == prepare_to_forecast(n, custom)
            IN  /\ n_out' = o.marker
                /\ forecaster' = o.head
                /\ requires_grad' = WithHead(requires_grad, "forecaster", forecaster, o.head)
                /\ last' = Call("prepare_to_forecast", "forecast", n, o.err, "none")
                /\ prepared_how' = How(prepared_how, "forecast", o)
                /\ result' = NoTensor
                /\ log' = Printed(o, n_out)
                /\ UNCHANGED hyperparams
                /\ round_trip' = Idle
                /\ UNCHANGED <<fixed, n_classes, n_features, classifier, nbeats>>

\* ------------------------------------------------------------ forward passes
\* A forward pass on an input of shape (B, n_in, space_dim) yields an error or
\* the shape of its output.
Fwd(err, shape) == [err |-> err, shape |-> shape]

\* calling a head that is None
ApplyHead(head, B) ==
    IF head = NoHead THEN Fwd(TypeError, <<>>) ELSE Fwd(OK, <<B, head.width>>)

_forward_featurize(B) == Fwd(OK, <<B, FeatureWidth>>)

\* all three backbones: classifier(features)
_forward_classify(B) ==
    LET f == _forward_featurize(B)
    IN  IF f.err /= OK THEN f ELSE ApplyHead(classifier, B)

\* tensor.reshape(B, steps, D) of a (B, width) tensor; steps = -1 infers it
Reshape(B, width, steps, D) ==
    IF steps = None
    THEN IF D > 0 /\ width >= 0 /\ width % D = 0
         THEN Fwd(OK, <<B, width \div D, D>>) ELSE Fwd(RuntimeError, <<>>)
    ELSE IF width = steps * D
         THEN Fwd(OK, <<B, steps, D>>) ELSE Fwd(RuntimeError, <<>>)

\* MultiTaskRNN.forecast_multi_all / MultiTaskTransformer._forward_forecast
forecast_multi_all(B) ==
    LET y == ApplyHead(forecaster, B)
    IN  IF y.err /= OK THEN y ELSE Reshape(B, y.shape[2], n_out, space_dim)

\* ts[:, i, :] = forecaster(out[:, -1, :]) : a (B, width) tensor written into a
\* (B, D) slot, which broadcasting allows for width 1
one_by_one_step(B) ==
    LET y == ApplyHead(forecaster, B)
    IN  IF y.err /= OK THEN y
        ELSE IF y.shape[2] = space_dim \/ y.shape[2] = 1 THEN Fwd(OK, <<B, space_dim>>)
        ELSE Fwd(RuntimeError, <<>>)

\* MultiTaskRNN.forecast_recurrently_one_by_one(x, n)[:, n_in:, :] as used by
\* _forward_forecast: n single steps appended to the n_in input steps
\* (line 290: torch.empty((B, T + n, D)) with n = self.n_out needs an integer)
RNN_forward_forecast_one_by_one(B) ==
    LET st == one_by_one_step(B)
    IN  IF ~IsInt(n_out) THEN Fwd(TypeError, <<>>)
        ELSE IF n_out >= 1 /\ st.err /= OK THEN st
        ELSE Fwd(OK, <<B, (n_in + n_out) - n_in, space_dim>>)

RNN_forward_forecast(B) ==
    IF forecast_type = "multi" THEN forecast_multi_all(B)
    ELSE RNN_forward_forecast_one_by_one(B)

\* forecast += other (nbeats.py 91, 144): an in-place sum keeps the width of
\* its left side, so the right side has that width or is one column broadcast
AddsInPlace(width, other) == other = width \/ other = 1

\* NBEATS.forward on the flattened input, then y.reshape(B, -1, D)
NBEATS_forward(B) ==
    IF nbeats.n_out = None THEN Fwd(NoNOutError, <<>>)
    ELSE IF \E sb \in DOMAIN nbeats.g_forecast : nbeats.g_forecast[sb] = None
         THEN Fwd(TypeError, <<>>)
    ELSE IF \E sb \in DOMAIN nbeats.g_forecast :
              ~AddsInPlace(nbeats.stack_n_out[sb[1]], nbeats.g_forecast[sb])
         THEN Fwd(RuntimeError, <<>>)
    ELSE IF \E s \in DOMAIN nbeats.stack_n_out :
              ~AddsInPlace(nbeats.n_out, nbeats.stack_n_out[s])
         THEN Fwd(RuntimeError, <<>>)
    ELSE Fwd(OK, <<B, nbeats.n_out>>)

NBEATS_forward_forecast(B) ==
    LET y == NBEATS_forward(B)
    IN  IF y.err /= OK THEN y ELSE Reshape(B, y.shape[2], None, space_dim)

_forward_forecast(B) ==
    CASE backbone = "RNN" -> RNN_forward_forecast(B)
      [] backbone = "NBEATS" -> NBEATS_forward_forecast(B)
      [] backbone = "Transformer" -> forecast_multi_all(B)

\* ------------------------------------------------ MultiTaskTimeSeriesModel.forward
\* The outcome of a call: the error, which task computation ran, the output shape.
Ret(err, ran, shape) == [err |-> err, ran |-> ran, shape |-> shape]

\* the asserted output postcondition of each branch
Post(f, ran, ok) ==
    IF f.err /= OK THEN Ret(f.err, ran, <<>>)
    ELSE IF ~ok THEN Ret(ShapeError, ran, <<>>)
    ELSE Ret(OK, ran, f.shape)

forward(B, T, D, kind) ==
    IF T /= n_in \/ D /= space_dim THEN Ret(ShapeError, "none", <<>>)
    ELSE IF kind = "classify" /\ is_prepared_to_classify
         THEN LET f == _forward_classify(B)
              IN  Post(f, "classify", f.err = OK /\ f.shape[2] = n_classes)
    ELSE IF kind = "featurize" /\ is_prepared_to_featurize
         THEN LET f == _forward_featurize(B)
              IN  Post(f, "featurize", f.err = OK /\ f.shape[2] = n_features)
    ELSE IF kind = "forecast" /\ is_prepared_to_forecast
         THEN LET f == _forward_forecast(B)
              IN  Post(f, "forecast",
                       f.err = OK /\ f.shape[2] = n_out /\ f.shape[3] = space_dim)
    ELSE Ret(NotPrepared, "none", <<>>)

\* ------------------------------------------------------- public entry points
\* classify(x): argmax over dim 1 of the class scores -> shape (B)
classify(B) ==
    IF ~is_prepared_to_classify THEN Ret(NotPrepared, "none", <<>>)
    ELSE LET f == _forward_classify(B)
         IN  IF f.err /= OK THEN Ret(f.err, "classify", <<>>)
             ELSE Ret(OK, "classify", <<B>>)

featurize(B) ==
    IF ~is_prepared_to_featurize THEN Ret(NotPrepared, "none", <<>>)
    ELSE LET f == _forward_featurize(B)
         IN  Ret(f.err, "featurize", f.shape)

\* ------------------------------------------------------- forecast_in_chunks
\* One row of a tensor along the time axis.  Input step j carries the label j;
\* a cell torch.empty allocated and nothing wrote yet is Uninit; the step k of
\* a native forecast made from a window is Pred(window, k).
Uninit == 0
InputRow(T) == [j \in 1..T |-> j]

RECURSIVE SumSeq(_)
SumSeq(w) == IF w = <<>> THEN 0 ELSE Head(w) + SumSeq(Tail(w))

PredBase == 10
Pred(window, k) == PredBase * (1 + (SumSeq(window) % PredBase)) + k

Min(a, b) == IF a <= b THEN a ELSE b

\* ts[:, i:i + n_out, :] = out[:, :min(n_out, T + n - i), :]
\* (python index i is cell i + 1); a source of one step is broadcast
WriteChunk(ts, i, total, osteps, window) ==
    LET target == Min(n_out, total - i)
        source == Min(osteps, Min(n_out, total - i))
    IN  IF source /= target /\ source /= 1 THEN [err |-> RuntimeError, ts |-> ts]
        ELSE [err |-> OK,
              ts |-> [j \in 1..Len(ts) |->
                        IF j > i /\ j <= i + target
                        THEN Pred(window, IF source = 1 THEN 1 ELSE j - i)
                        ELSE ts[j]]]

\* for i in range(T, T + n, n_out); every call of the native primitive is
\* logged: its position i, the first step lo of its window, the window's
\* contents and the python indices it wrote
RECURSIVE ChunkLoop(_, _, _, _, _)
ChunkLoop(ts, i, total, B, calls) ==
    IF i >= total THEN [err |-> OK, ts |-> ts, calls |-> calls]
    ELSE LET current_window == SubSeq(ts, i - n_in + 1, i)
             out == _forward_forecast(B)
             call == [i |-> i, lo |-> i - n_in, window |-> current_window, written |-> {}]
         IN  IF out.err /= OK
             THEN [err |-> out.err, ts |-> ts, calls |-> Append(calls, call)]
             ELSE LET w == WriteChunk(ts, i, total, out.shape[2], current_window)
                      wrote == i..(i + Min(n_out, total - i) - 1)
                  IN  IF w.err /= OK
                      THEN [err |-> w.err, ts |-> ts, calls |-> Append(calls, call)]
                      ELSE ChunkLoop(w.ts, i + n_out, total, B,
                               Append(calls, [call EXCEPT !.written = wrote]))

forecast_in_chunks(B, T, n) ==
    IF ~is_prepared_to_forecast
    THEN [err |-> NotPrepared, ran |-> "none", shape |-> <<>>, data |-> <<>>, calls |-> <<>>]
    ELSE IF T /= n_in
    THEN [err |-> ShapeError, ran |-> "none", shape |-> <<>>, data |-> <<>>, calls |-> <<>>]
    ELSE LET ts0 == InputRow(T) \o [j \in 1..n |-> Uninit]
             r == ChunkLoop(ts0, T, T + n, B, <<>>)
             ran == IF n >= 1 THEN "forecast" ELSE "none"
         IN  IF r.err /= OK
             THEN [err |-> r.err, ran |-> ran, shape |-> <<>>, data |-> <<>>, calls |-> r.calls]
             ELSE [err |-> OK, ran |-> ran, shape |-> <<B, T + n, space_dim>>, data |-> r.ts,
                   calls |-> r.calls]

\* --------------------------------------- MultiTaskRNN recurrent forecasting
\* The recurrent state is modelled by the steps fed to self.rnn so far; the
\* step predicted from a state is Pred(state, 1).  Each iteration is logged:
\* the cell written and the number of steps fed back.
\* line 294 / 308: the forecaster's output as one step of D channels
multi_first_step(B) ==
    LET y == ApplyHead(forecaster, B)
    IN  IF y.err /= OK THEN y
        ELSE LET r == Reshape(B, y.shape[2], n_out, space_dim)
             IN  IF r.err /= OK THEN r ELSE Fwd(OK, <<B, space_dim>>)

\* for i in range(T, T + n): ts[:, i, :] = ...; out, state = self.rnn(ts[:, i:i+1, :], state)
RECURSIVE RecurrentLoop(_, _, _, _, _, _)
RecurrentLoop(ts, i, total, state, calls, step) ==
    IF i >= total THEN [err |-> OK, ts |-> ts, calls |-> calls]
    ELSE IF step.err /= OK THEN [err |-> step.err, ts |-> ts, calls |-> calls]
    ELSE LET written == [ts EXCEPT ![i + 1] = Pred(state, 1)]
             fed == SubSeq(written, i + 1, i + 1)
         IN  RecurrentLoop(written, i + 1, total, state \o fed,
                 Append(calls, [i |-> i, written |-> {i}, fed |-> Len(fed)]), step)

ForecastTypeAssert == "ForecastTypeAssert"   \* AssertionError of lines 288, 302

forecast_recurrently(B, T, n, required_type, step) ==
    IF forecast_type /= required_type
    THEN [err |-> ForecastTypeAssert, shape |-> <<>>, data |-> <<>>, calls |-> <<>>]
    ELSE LET ts0 == InputRow(T) \o [j \in 1..n |-> Uninit]
             r == RecurrentLoop(ts0, T, T + n, InputRow(T), <<>>, step)
         IN  IF r.err /= OK
             THEN [err |-> r.err, shape |-> <<>>, data |-> <<>>, calls |-> r.calls]
             ELSE [err |-> OK, shape |-> <<B, T + n, space_dim>>, data |-> r.ts,
                   calls |-> r.calls]

forecast_recurrently_one_by_one(B, T, n) ==
    forecast_recurrently(B, T, n, "one_by_one", one_by_one_step(B))

forecast_recurrently_multi_first(B, T, n) ==
    forecast_recurrently(B, T, n, "multi", multi_first_step(B))

\* ------------------------- MultiTaskRNN.get_applicable_forecast_functions
\* the forecasting methods MultiTaskRNN defines or inherits
RNN_forecast_methods ==
    {"forecast_in_chunks", "forecast_recurrently_one_by_one",
     "forecast_recurrently_multi_first"}

\* self.<name>: the bound method, or AttributeError when no such attribute
getattr_method(name) ==
    IF name \in RNN_forecast_methods THEN [err |-> OK, fn |-> name]
    ELSE [err |-> AttributeError, fn |-> name]

\* the dictionary is the set of its <<key, method>> entries
get_applicable_forecast_functions ==
    LET chunks == getattr_method("forecast_in_chunks")
        named == IF forecast_type = "one_by_one"
                 THEN <<"one_by_one", getattr_method("forecast_recurrently_one_by_one")>>
                 ELSE <<"multi", getattr_method("forecast_recurrently_chunk_first")>>
    IN  IF chunks.err /= OK THEN [err |-> chunks.err, functions |-> {}]
        ELSE IF forecast_type \notin {"one_by_one", "multi"}
        THEN [err |-> OK, functions |-> {<<"chunks", chunks.fn>>}]
        ELSE IF named[2].err /= OK THEN [err |-> named[2].err, functions |-> {}]
        ELSE [err |-> OK, functions |-> {<<"chunks", chunks.fn>>, <<named[1], named[2].fn>>}]

\* ------------------------------------------------------- featurizer freezing
\* MultiTaskNBEATS._get_featurizer_parameters iterates `for block in stack`
\* over a _Stack, which is not iterable: the call raises before any parameter
\* is returned.
_get_featurizer_parameters ==
    CASE backbone = "RNN" -> [err |-> OK, params |-> {HeadParam("rnn")}]
      [] backbone = "Transformer" -> [err |-> OK, params |-> {HeadParam("encoder")}]
      [] backbone = "NBEATS" -> [err |-> TypeError, params |-> {}]

\* for parameter in ...: parameter.requires_grad_(flag)
set_featurizer_flags(flag) ==
    LET g == _get_featurizer_parameters
    IN  [err |-> g.err,
         flags |-> IF g.err /= OK THEN requires_grad
                   ELSE SetFlags(requires_grad, g.params, flag)]

freeze_featurizer == set_featurizer_flags(FALSE)

unfreeze_featurizer == set_featurizer_flags(TRUE)

Dispatch ==
    /\ last.op = "idle"
    /\ \E B \in 1..MaxBatch, T \in {n_in, n_in + 1}, D \in {space_dim, space_dim + 1},
          kind \in Tasks :
         LET r == forward(B, T, D, kind)
         IN  /\ last' = [Call("forward", kind, None, r.err, r.ran) EXCEPT !.arg = <<B, T, D>>]
             /\ result' = [shape |-> r.shape, data |-> <<>>]
             /\ log' = NoLog
             /\ UNCHANGED hyperparams
             /\ round_trip' = Idle
             /\ UNCHANGED <<fixed, markers, classifier, forecaster, nbeats, requires_grad, prepared_how>>

Classify ==
    /\ last.op = "idle"
    /\ \E B \in 1..MaxBatch :
         LET r == classify(B)
         IN  /\ last' = [Call("classify", "classify", None, r.err, r.ran)
                           EXCEPT !.arg = <<B, n_in, space_dim>>]
             /\ result' = [shape |-> r.shape, data |-> <<>>]
             /\ log' = NoLog
             /\ UNCHANGED hyperparams
             /\ round_trip' = Idle
             /\ UNCHANGED <<fixed, markers, classifier, forecaster, nbeats, requires_grad, prepared_how>>

Featurize ==
    /\ last.op = "idle"
    /\ \E B \in 1..MaxBatch :
         LET r == featurize(B)
         IN  /\ last' = [Call("featurize", "featurize", None, r.err, r.ran)
                           EXCEPT !.arg = <<B, n_in, space_dim>>]
             /\ result' = [shape |-> r.shape, data |-> <<>>]
             /\ log' = NoLog
             /\ UNCHANGED hyperparams
             /\ round_trip' = Idle
             /\ UNCHANGED <<fixed, markers, classifier, forecaster, nbeats, requires_grad, prepared_how>>

ForecastInChunks ==
    /\ last.op = "idle"
    /\ \E B \in 1..MaxBatch, T \in {n_in, n_in + 1}, n \in 0..MaxHorizon :
         LET r == forecast_in_chunks(B, T, n)
         IN  /\ last' = [Call("forecast_in_chunks", "forecast", None, r.err, r.ran)
                           EXCEPT !.arg = <<B, T, space_dim, n>>]
             /\ result' = [shape |-> r.shape, data |-> r.data]
             /\ log' = [NoLog EXCEPT !.calls = r.calls]
             /\ UNCHANGED hyperparams
             /\ round_trip' = Idle
             /\ UNCHANGED <<fixed, markers, classifier, forecaster, nbeats, requires_grad, prepared_how>>

GetApplicableForecastFunctions ==
    /\ last.op = "idle"
    /\ backbone = "RNN"
    /\ LET r == get_applicable_forecast_functions
       IN  /\ last' = Call("get_applicable_forecast_functions", "none", None, r.err, "none")
           /\ result' = NoTensor
           /\ log' = [NoLog EXCEPT !.functions = r.functions]
           /\ UNCHANGED hyperparams
           /\ round_trip' = Idle
           /\ UNCHANGED <<fixed, markers, classifier, forecaster, nbeats, requires_grad, prepared_how>>

FreezeFeaturizer ==
    /\ last.op = "idle"
    /\ LET r == freeze_featurizer
       IN  /\ requires_grad' = r.flags
           /\ last' = Call("freeze_featurizer", "none", None, r.err, "none")
           /\ result' = NoTensor
           /\ log' = NoLog
           /\ UNCHANGED hyperparams
           /\ round_trip' = [stage |-> "frozen", before |-> requires_grad]
           /\ UNCHANGED <<fixed, markers, classifier, forecaster, nbeats, prepared_how>>

UnfreezeFeaturizer ==
    /\ last.op = "idle"
    /\ LET r == unfreeze_featurizer
       IN  /\ requires_grad' = r.flags
           /\ last' = Call("unfreeze_featurizer", "none", None, r.err, "none")
           /\ result' = NoTensor
           /\ log' = NoLog
           /\ UNCHANGED hyperparams
           /\ round_trip' = IF round_trip.stage = "frozen"
                            THEN [stage |-> "done", before |-> round_trip.before]
                            ELSE Idle
           /\ UNCHANGED <<fixed, markers, classifier, forecaster, nbeats, prepared_how>>

\* self.nbeats.set_n_out(n): every block gets a new g_forecast
SetNOut ==
    /\ last.op = "idle"
    /\ \E n \in 0..MaxSize :
         /\ backbone = "NBEATS"
         /\ nbeats' = NBEATS_set_n_out(nbeats, n)
         /\ requires_grad' = Override(requires_grad, Fresh(GForecastParams(nbeats')))
         /\ last' = Call("set_n_out", "none", n, OK, "none")
         /\ result' = NoTensor
         /\ log' = NoLog
         /\ UNCHANGED hyperparams
         /\ round_trip' = Idle
         /\ UNCHANGED <<fixed, markers, classifier, forecaster, prepared_how>>

ForecastRecurrently ==
    /\ last.op = "idle"
    /\ backbone = "RNN"
    /\ \E B \in 1..MaxBatch, T \in {n_in, n_in + 1}, n \in 0..MaxHorizon,
          f \in {"forecast_recurrently_one_by_one", "forecast_recurrently_multi_first"} :
         LET r == IF f = "forecast_recurrently_one_by_one"
                  THEN forecast_recurrently_one_by_one(B, T, n)
                  ELSE forecast_recurrently_multi_first(B, T, n)
         IN  /\ last' = [Call(f, "forecast", None, r.err, "none")
                           EXCEPT !.arg = <<B, T, space_dim, n>>]
             /\ result' = [shape |-> r.shape, data |-> r.data]
             /\ log' = [NoLog EXCEPT !.calls = r.calls]
             /\ round_trip' = Idle
             /\ UNCHANGED <<fixed, markers, classifier, forecaster, nbeats, requires_grad,
                            prepared_how, hyperparams>>

\* the keyword arguments of a later register_hyperparams call: a name the
\* registry has and a name it has not
RegKwargs == {[n_classes |-> MaxSize, note |-> 1]}

RegisterHyperparams ==
    /\ last.op = "idle"
    /\ \E kwargs \in RegKwargs :
         hyperparams' = register_hyperparams(hyperparams, kwargs)
    /\ last' = Call("register_hyperparams", "none", None, OK, "none")
    /\ result' = NoTensor
    /\ log' = NoLog
    /\ round_trip' = Idle
    /\ UNCHANGED <<fixed, markers, classifier, forecaster, nbeats, requires_grad, prepared_how>>

\* the call returns: its outcome is with the caller and the instance is idle
Return ==
    /\ last.op /= "idle"
    /\ last' = NoCall
    /\ result' = NoTensor
    /\ log' = NoLog
    /\ UNCHANGED hyperparams
    /\ round_trip' = IF round_trip.stage = "done" THEN Idle ELSE round_trip
    /\ UNCHANGED <<fixed, markers, classifier, forecaster, nbeats, requires_grad, prepared_how>>

\* a call on the instance, or its return
MethodCall ==
    \/ PrepareToClassify
    \/ PrepareToFeaturize
    \/ PrepareToForecast
    \/ Dispatch
    \/ Classify
    \/ Featurize
    \/ ForecastInChunks
    \/ FreezeFeaturizer
    \/ UnfreezeFeaturizer
    \/ SetNOut
    \/ ForecastRecurrently
    \/ GetApplicableForecastFunctions
    \/ RegisterHyperparams
    \/ Return

\* ------------------------------------------------------------- constructors
\* MultiTaskTimeSeriesModel.__init__(n_in, space_dim, n_classes, n_features, n_out)
MultiTaskTimeSeriesModel_init(ni, d, nc, nf, no) ==
    IF nc = None /\ nf = None /\ no = None THEN ConfigError
    ELSE IF check_int_arg(ni, 1).err /= OK THEN ConfigError
    ELSE IF check_int_arg(d, 1).err /= OK THEN ConfigError
    ELSE OK

\* MultiTaskRNN / MultiTaskNBEATS / MultiTaskTransformer .__init__ all begin with
\* super().__init__(n_in=n_in, space_dim=space_dim): the three task sizes are
\* not handed to the base constructor, which sees its defaults (None).
super_init(args) ==
    MultiTaskTimeSeriesModel_init(args.n_in, args.space_dim, None, None, None)

\* what follows super().__init__ up to the backbone network:
\* MultiTaskRNN hands num_hidden= to nn.GRU / nn.LSTM, which take no such
\* argument (line 234); MultiTaskNBEATS computes n_out * space_dim for the
\* network whatever n_out is (line 360)
MultiTaskRNN_init_network(args) == TypeError
MultiTaskNBEATS_init_network(args) == IF args.n_out = None THEN TypeError ELSE OK

Backbone_init(cls, args) ==
    LET b == super_init(args)
    IN  IF b /= OK THEN b
        ELSE CASE cls = "RNN" -> MultiTaskRNN_init_network(args)
               [] cls = "NBEATS" -> MultiTaskNBEATS_init_network(args)
               [] cls = "Transformer" -> OK

CtorArgs ==
    [n_in : 0..MaxNIn, space_dim : 0..MaxSpaceDim,
     n_classes : {None} \cup (1..MaxSize),
     n_features : {None} \cup (1..MaxSize) \cup {NStacks * NBlocks * ExpansionDim},
     n_out : {None} \cup (1..MaxSize)]

\* no instance exists while its constructor runs
InitCtor ==
    \E cls \in Backbones, args \in CtorArgs :
      /\ construction = Ctor(cls, args, "call", OK)
      /\ backbone = cls
      /\ n_in = None /\ space_dim = None
      /\ forecast_type = "one_by_one" /\ n_hidden = 0
      /\ n_stacks = 0 /\ n_blocks = 0 /\ expansion_coefficient_dim = 0
      /\ n_classes = None /\ n_features = None /\ n_out = None
      /\ classifier = NoHead /\ forecaster = NoHead
      /\ nbeats = NoNet
      /\ requires_grad = <<>>
      /\ last = NoCall
      /\ result = NoTensor
      /\ round_trip = Idle
      /\ prepared_how = NeverPrepared
      /\ hyperparams = NoRegistry
      /\ log = NoLog
      /\ NoNetworkPass

\* The constructor up to the backbone network.  What follows super().__init__
\* in each class runs only when the base constructor returns.
Construct ==
    /\ construction.pc = "call"
    /\ LET e == Backbone_init(construction.cls, construction.args)
       IN  construction' = [construction EXCEPT
                              !.pc = IF e = OK THEN "super_returned" ELSE "raised",
                              !.err = e]
    /\ UNCHANGED <<config, markers, classifier, forecaster, nbeats, requires_grad,
                   last, result, round_trip, prepared_how, hyperparams, log, network>>

NextCtor == Construct

SpecCtor == InitCtor /\ [][NextCtor]_vars

\* ---------------------------------------------------- the rest of a constructor
\* What a subclass constructor does once super().__init__ and the backbone
\* network have returned: the instance attributes, the registry (226, 354,
\* 433), the conditional prepare_to_* calls; the terminal backcast path of the
\* NBEATS network is frozen (nbeats.py 127-128).  A prepare_to_* call that
\* raises ends the construction and no instance is returned.  forecast_type is
\* the remaining keyword argument of MultiTaskRNN; n_hidden, n_stacks,
\* n_blocks and expansion_coefficient_dim take their one value.
ConstructRest ==
    /\ construction.pc = "super_returned"
    /\ \E ft \in ForecastTypes :
         LET bb == construction.cls
             a == construction.args
             c == SubclassInit(bb, a.space_dim, ft,
                               WidthOf(bb, a.space_dim, NumHidden, NStacks, NBlocks, ExpansionDim),
                               a.n_classes, a.n_features, a.n_out)
             S == IF bb = "NBEATS" THEN NStacks ELSE 0
             Bk == IF bb = "NBEATS" THEN NBlocks ELSE 0
             net == IF bb = "NBEATS" THEN NBEATS_init(S, Bk, a.n_out * a.space_dim) ELSE NoNet
             built == (IF c.classifier = NoHead THEN {} ELSE {HeadParam("classifier")})
                      \cup (IF c.forecaster = NoHead THEN {} ELSE {HeadParam("forecaster")})
         IN  /\ bb /= "RNN" => ft = "one_by_one"
             /\ IF c.err /= OK
                THEN /\ construction' = [construction EXCEPT !.pc = "raised", !.err = c.err]
                     /\ UNCHANGED <<config, markers, classifier, forecaster, nbeats,
                                    requires_grad, prepared_how, hyperparams>>
                ELSE /\ construction' = [construction EXCEPT !.pc = "constructed"]
                     /\ backbone' = bb
                     /\ n_in' = a.n_in
                     /\ space_dim' = a.space_dim
                     /\ forecast_type' = ft
                     /\ n_hidden' = IF bb = "RNN" THEN NumHidden ELSE 0
                     /\ n_stacks' = S
                     /\ n_blocks' = Bk
                     /\ expansion_coefficient_dim' = IF bb = "NBEATS" THEN ExpansionDim ELSE 0
                     /\ n_classes' = c.n_classes
                     /\ n_features' = c.n_features
                     /\ n_out' = c.n_out
                     /\ prepared_how' = [t \in Tasks |->
                                           IF (CASE t = "classify" -> c.n_classes
                                                 [] t = "featurize" -> c.n_features
                                                 [] t = "forecast" -> c.n_out) = None
                                           THEN "never" ELSE "clean"]
                     /\ classifier' = c.classifier
                     /\ forecaster' = c.forecaster
                     /\ nbeats' = net
                     /\ requires_grad' =
                          Override(IF bb = "NBEATS"
                                   THEN SetFlags(Fresh(BackboneParams(bb, S, Bk, net)),
                                                 PermanentlyFrozen(S, Bk), FALSE)
                                   ELSE Fresh(BackboneParams(bb, 0, 0, NoNet)),
                                   Fresh(built))
                     /\ hyperparams' = Registered(bb, ft, a.n_in, a.space_dim,
                                                  a.n_classes, a.n_features, a.n_out)
    /\ UNCHANGED <<last, result, round_trip, log, network>>

\* ------------------------------------------------------- a caller's program
\* One statement of the caller per step: the constructor call, whose rest runs
\* when super().__init__ and the network return, then calls on the instance
\* the constructor returned.  A constructor that raised returns no instance
\* and the program ends there: with super().__init__ raising at line 49 for
\* every argument list, that is every program, and no step of the second or
\* third kind is taken.
NextCalls ==
    IF construction.pc = "call" THEN Construct
    ELSE IF construction.pc = "super_returned" THEN ConstructRest
    ELSE construction.pc = "constructed" /\ MethodCall

SpecCalls == InitCtor /\ [][NextCalls]_vars


\* ------------------------------------------------- the NBEATS network, by value
\* One row of the batch.  A block's weights are integers fixed by one integer
\* theta of the block: FC_stack is one layer h = relu(theta * sum(x) + 1),
\* FC_backcast gives the first coefficient the value h and the others 0,
\* FC_forecast gives coefficient c the value (theta + c - 1) * h, g_backcast
\* gives every step the value sum(coefficients), g_forecast gives step k the
\* value k * sum(coefficients).
MaxX == 2
Thetas == {-1, 1}
NetBlocks == (1..NStacks) \X (1..NBlocks)

relu(v) == IF v > 0 THEN v ELSE 0
Zeros(n) == [j \in 1..n |-> 0]
VAdd(a, b) == [j \in 1..Len(a) |-> a[j] + b[j]]
VSub(a, b) == [j \in 1..Len(a) |-> a[j] - b[j]]

\* NBEATS._Block.get_expansions
Block_get_expansions(theta, xx) ==
    LET h == relu(theta * SumSeq(xx) + 1)
    IN  [backcast |-> [c \in 1..ExpansionDim |-> IF c = 1 THEN h ELSE 0],
         forecast |-> [c \in 1..ExpansionDim |-> (theta + c - 1) * h]]

Block_g_backcast(backcast_expansion, T) == [j \in 1..T |-> SumSeq(backcast_expansion)]
Block_g_forecast(forecast_expansion, n) == [k \in 1..n |-> k * SumSeq(forecast_expansion)]

\* NBEATS._Block.forward_from_expansions
Block_forward_from_expansions(e, T) ==
    [backcast |-> Block_g_backcast(e.backcast, T),
     forecast |-> Block_g_forecast(e.forecast, net_n_out)]

\* NBEATS._Block.forward
Block_forward(theta, xx) ==
    Block_forward_from_expansions(Block_get_expansions(theta, xx), Len(xx))

\* NBEATS._Stack.forward: for block in self.blocks
\* faulty variant: the block's forecast replaces the running sum
RECURSIVE Stack_forward_loop_last_only(_, _, _, _)
Stack_forward_loop_last_only(s, b, xx, forecast) ==
    IF b > NBlocks THEN [x |-> xx, forecast |-> forecast]
    ELSE LET r == Block_forward(net_weights[<<s, b>>], xx)
         IN  Stack_forward_loop_last_only(s, b + 1, VSub(xx, r.backcast), r.forecast)

RECURSIVE Stack_forward_loop(_, _, _, _)
Stack_forward_loop(s, b, xx, forecast) ==
    IF b > NBlocks THEN [x |-> xx, forecast |-> forecast]
    ELSE LET r == Block_forward(net_weights[<<s, b>>], xx)
         IN  Stack_forward_loop(s, b + 1, VSub(xx, r.backcast), VAdd(forecast, r.forecast))

Stack_forward(s, xx) == Stack_forward_loop(s, 1, xx, Zeros(net_n_out))

\* NBEATS.forward: for stack in self.stacks
RECURSIVE NBEATS_forward_loop(_, _, _)
NBEATS_forward_loop(s, backcast, forecast) ==
    IF s > NStacks THEN forecast
    ELSE LET r == Stack_forward(s, backcast)
         IN  NBEATS_forward_loop(s + 1, r.x, VAdd(forecast, r.forecast))

NBEATS_forward_values(xx) == NBEATS_forward_loop(1, xx, Zeros(net_n_out))

\* NBEATS.featurize: the loops over stacks and blocks, block number k of
\* NStacks * NBlocks in stack-then-block order; features[:, i:i + e] is
\* cell i + 1 .. i + e
NthBlock(k) == <<((k - 1) \div NBlocks) + 1, ((k - 1) % NBlocks) + 1>>

RECURSIVE NBEATS_featurize_loop(_, _, _)
NBEATS_featurize_loop(k, backcast, features) ==
    IF k > NStacks * NBlocks THEN features
    ELSE LET sb == NthBlock(k)
             e == Block_get_expansions(net_weights[sb], backcast)
             i == ((sb[1] - 1) * NBlocks + (sb[2] - 1)) * ExpansionDim
         IN  NBEATS_featurize_loop(
                 k + 1,
                 Block_g_backcast(e.backcast, Len(backcast)),
                 [c \in 1..Len(features) |->
                    IF c > i /\ c <= i + ExpansionDim THEN e.forecast[c - i]
                    ELSE features[c]])

NBEATS_featurize_values(xx) ==
    NBEATS_featurize_loop(1, xx, Zeros(NStacks * NBlocks * ExpansionDim))

InitNet ==
    /\ \E T \in 1..MaxNIn : net_input \in [1..T -> 0..MaxX]
    /\ net_weights \in [NetBlocks -> Thetas]
    /\ net_n_out \in {1, MaxSize}
    /\ net_pass = NoPass
    /\ \E cls \in {"NBEATS"} :
         /\ construction = Constructed(cls)
         /\ backbone = cls
    /\ n_in = None /\ space_dim = None
    /\ forecast_type = "one_by_one" /\ n_hidden = 0
    /\ n_stacks = NStacks /\ n_blocks = NBlocks /\ expansion_coefficient_dim = ExpansionDim
    /\ n_classes = None /\ n_features = None /\ n_out = None
    /\ classifier = NoHead /\ forecaster = NoHead
    /\ nbeats = NoNet
    /\ requires_grad = <<>>
    /\ last = NoCall
    /\ result = NoTensor
    /\ round_trip = Idle
    /\ prepared_how = NeverPrepared
    /\ hyperparams = NoRegistry
    /\ log = NoLog

NetForward ==
    /\ net_pass.op /= "forward"
    /\ net_pass' = [op |-> "forward", out |-> NBEATS_forward_values(net_input)]
    /\ UNCHANGED <<config, construction, net_input, net_weights, net_n_out, markers,
                   classifier, forecaster, nbeats, requires_grad, last, result,
                   round_trip, prepared_how, hyperparams, log>>

NetFeaturize ==
    /\ net_pass.op /= "featurize"
    /\ net_pass' = [op |-> "featurize", out |-> NBEATS_featurize_values(net_input)]
    /\ UNCHANGED <<config, construction, net_input, net_weights, net_n_out, markers,
                   classifier, forecaster, nbeats, requires_grad, last, result,
                   round_trip, prepared_how, hyperparams, log>>

NextNet == NetForward \/ NetFeaturize

SpecNet == InitNet /\ [][NextNet]_vars


\* ====================================================================== claims
Marker(t) ==
    CASE t = "classify" -> n_classes
      [] t = "featurize" -> n_features
      [] t = "forecast" -> n_out

MinSize(t) ==
    CASE t = "classify" -> MinClasses
      [] t = "featurize" -> MinFeatures
      [] t = "forecast" -> MinOut

PrepareOps == {"prepare_to_classify", "prepare_to_featurize", "prepare_to_forecast"}
EntryOps == {"forward", "classify", "featurize", "forecast_in_chunks"}

\* the last call received an input of shape (B, n_in, space_dim)
WellShaped == last.arg[2] = n_in /\ last.arg[3] = space_dim

\* the size argument of the last prepare call is below the task's minimum
BelowMinimum(c) == ~IsInt(c.arg) \/ c.arg < MinSize(c.kind)

\* ---------------------------------------------------------------------- C1
\* C1: constructing a backbone with valid n_in >= 1 and space_dim >= 1 raises
\* the configuration error if and only if none of n_classes, n_features, n_out
\* is supplied.
C1_CtorRaisesIffNoTaskSize ==
    (/\ construction.pc \in {"raised", "super_returned"}
     /\ construction.args.n_in >= 1
     /\ construction.args.space_dim >= 1)
    => ((construction.err = ConfigError)
          <=> (/\ construction.args.n_classes = None
               /\ construction.args.n_features = None
               /\ construction.args.n_out = None))

\* ------------------------------------------- the backbones the claims are about
\* a constructor call of class cls with valid n_in and space_dim is over
CallOver(cls) ==
    /\ construction.cls = cls /\ construction.pc /= "call"
    /\ construction.args.n_in >= 1 /\ construction.args.space_dim >= 1

\* MultiTaskNBEATS(n_in, space_dim, n_blocks, n_stacks, expansion_coefficient_dim,
\* n_out=k, ...): a residual-stack backbone prepared to forecast
NBEATS_with_n_out ==
    /\ CallOver("NBEATS")
    /\ construction.args.n_out \in 1..MaxSize
    /\ construction.args.n_classes = None /\ construction.args.n_features = None

\* MultiTaskTransformer(n_in, space_dim, n_features=space_dim, ...): an attention
\* backbone prepared to featurize
Transformer_with_n_features ==
    /\ CallOver("Transformer")
    /\ construction.args.n_features = construction.args.space_dim
    /\ construction.args.n_classes = None /\ construction.args.n_out = None

\* MultiTaskRNN(n_in, space_dim, model, n_layers, n_hidden=h, n_features=h,
\* n_out=k, ...): a recurrent backbone prepared to featurize and to forecast
RNN_with_n_out ==
    /\ CallOver("RNN")
    /\ construction.args.n_features = NumHidden
    /\ construction.args.n_out \in 1..MaxSize
    /\ construction.args.n_classes = None

\* the constructor returned an instance, on which calls are made
Built == construction.pc = "constructed"

PreparedCleanly(t) ==
    /\ Marker(t) /= None
    /\ prepared_how[t] = "clean"
    /\ classifier.kind /= "custom" /\ forecaster.kind /= "custom"
    /\ nbeats.set_by = "__init__"

FeaturizerParams ==
    CASE backbone = "RNN" -> {HeadParam("rnn")}
      [] backbone = "Transformer" -> {HeadParam("encoder")}
      [] backbone = "NBEATS" -> BlockParams(n_stacks, n_blocks)

C12_FeaturizeWidthWithoutNOut ==
    /\ (/\ backbone = "NBEATS" /\ construction.pc = "constructed"
        /\ last.op \in {"forward", "featurize"} /\ last.kind = "featurize"
        /\ WellShaped /\ is_prepared_to_featurize)
       => /\ last.err = OK
          /\ result.shape = <<last.arg[1], n_stacks * n_blocks * expansion_coefficient_dim>>
    /\ (/\ construction.cls = "NBEATS" /\ construction.pc \in {"raised", "super_returned"}
        /\ construction.args.n_in >= 1 /\ construction.args.space_dim >= 1
        /\ construction.args.n_features = NStacks * NBlocks * ExpansionDim
        /\ construction.args.n_classes = None
        /\ construction.args.n_out = None)
       => construction.err = OK

\* --------------------------------------------------------------------- C13
\* the residual block number k receives: the flattened input for the first
\* block, otherwise the previous block's input minus that block's backcast
RECURSIVE ResidualAt(_)
ResidualAt(k) ==
    IF k = 1 THEN net_input
    ELSE LET prev == ResidualAt(k - 1)
         IN  VSub(prev, Block_forward(net_weights[NthBlock(k - 1)], prev).backcast)

RECURSIVE SumOfBlockForecasts(_)
SumOfBlockForecasts(k) ==
    IF k = 0 THEN Zeros(net_n_out)
    ELSE VAdd(SumOfBlockForecasts(k - 1),
              Block_forward(net_weights[NthBlock(k)], ResidualAt(k)).forecast)

\* C13: the network's total forecast is the element-wise sum of the forecasts of
\* every block of every stack, each block evaluated on the residual it receives.
C13_ForecastIsSumOfBlocks ==
    net_pass.op = "forward" => net_pass.out = SumOfBlockForecasts(NStacks * NBlocks)

C13_Witness ==
    /\ net_pass.op = "forward"
    /\ \E k \in 2..(NStacks * NBlocks) :
         /\ ResidualAt(k) /= net_input
         /\ Block_forward(net_weights[NthBlock(k)], ResidualAt(k)).forecast /= Zeros(net_n_out)
    /\ net_pass.out /= Block_forward(net_weights[NthBlock(1)], net_input).forecast

\* --------------------------------------------------------------------- C19
\* C19: featurization runs the residual pass of forecasting: the feature
\* columns of block (s, b), [(s * n_blocks + b) * d, (s * n_blocks + b + 1) * d),
\* are the forecast expansion that block computes on the residual the
\* forecasting pass gives it; the slices cover the whole feature vector.
C19_FeaturizeFollowsResidualPass ==
    net_pass.op = "featurize" =>
      /\ Len(net_pass.out) = NStacks * NBlocks * ExpansionDim
      /\ \A k \in 1..(NStacks * NBlocks) :
           SubSeq(net_pass.out, (k - 1) * ExpansionDim + 1, k * ExpansionDim)
             = Block_get_expansions(net_weights[NthBlock(k)], ResidualAt(k)).forecast

RecurrentOps == {"forecast_recurrently_one_by_one", "forecast_recurrently_multi_first"}

\* the forecast type the called function asserts is the model's
TypeMatches ==
    \/ last.op = "forecast_recurrently_one_by_one" /\ forecast_type = "one_by_one"
    \/ last.op = "forecast_recurrently_multi_first" /\ forecast_type = "multi"

ValidSize(c) ==
    /\ IsInt(c.arg) /\ c.arg >= MinSize(c.kind)
    /\ c.kind = "featurize" => c.arg = FeatureWidth

\* the head of task t is built for size n: the classifier (built with n
\* outputs, or supplied), the forecaster or, on the residual-stack backbone,
\* every block's forecast generator
HeadSizedFor(t, n, cls, fct, net) ==
    CASE t = "classify" -> cls.kind = "custom" \/ (cls.kind = "default" /\ cls.width = n)
      [] t = "featurize" -> TRUE
      [] t = "forecast" ->
           IF backbone = "NBEATS"
           THEN \A sb \in DOMAIN net.g_forecast : net.g_forecast[sb] = n * space_dim
           ELSE \/ fct.kind = "custom"
                \/ /\ fct.kind = "default"
                   /\ fct.width = space_dim * (IF backbone = "RNN" /\ forecast_type = "one_by_one"
                                               THEN 1 ELSE n)

SizeName(t) ==
    CASE t = "classify" -> "n_classes"
      [] t = "featurize" -> "n_features"
      [] t = "forecast" -> "n_out"

ChunkCount(n) == (n + n_out - 1) \div n_out

AssertedType(fn) ==
    CASE fn = "forecast_recurrently_one_by_one" -> {"one_by_one"}
      [] fn = "forecast_recurrently_multi_first" -> {"multi"}
      [] OTHER -> {"one_by_one", "multi"}

====
